---- MODULE Spec2Model ----
(***************************************************************************)
(* A model of go-burndown: the reconstruction of an issue's completion     *)
(* from its Jira changelog (package jira), the paginated query that        *)
(* fetches the issues (jira.QueryJira) and the report that samples the     *)
(* completion weekly (excel.GenerateExcelReport).                          *)
(*                                                                         *)
(* Strings the program parses or formats are sequences of one-character    *)
(* strings, so that parsing and formatting are computed, not assumed.      *)
(* float64 values are records: a finite number in hundredths, NaN, or an   *)
(* infinity with its sign.  An instant (time.Time) is a UTC day number     *)
(* (days since 1970-01-01) with the millisecond of that day.               *)
(***************************************************************************)
EXTENDS Integers, Sequences, FiniteSets, TLC

VARIABLES
    \* ---- one issue's reconstruction (package jira, history) ----
    raw,          \* the changelog as unmarshalled from the JSON response
    histories,    \* issue.Changelog.Histories
    parsed,       \* "raw" before parseHistoryTimes, then "ok" or "err"
    completion,   \* date -> the outcome of PercentCompleteOnDate(date), once called
    parseErr,     \* the error parseHistoryTimes returned (NoError for nil)
    \* ---- jira.QueryJira against a server ----
    serverN,      \* the number of issues the JQL matches on the server
    badKey,       \* the issue whose changelog holds a malformed timestamp (0: none)
    qpc,          \* where QueryJira is: "search", "detail", "paged", "sleep", "done"
    startAt,      \* startAt
    page,         \* searchResp.Issues: the keys of the page last received
    idx,          \* the index of the for loop over searchResp.Issues (from 1)
    allIssues,    \* allIssues: the keys of the issues appended, in order
    fetched,      \* the last getIssueDetails call: what it unmarshalled and returned
    requests,     \* the startAt of every search request sent, in order
    qresult,      \* what QueryJira returned
    traffic,      \* what the run did on the wire, in order: "search", "issue", "sleep"
    \* ---- excel.GenerateExcelReport ----
    startDate,      \* config.StartDate, as written in the configuration
    currentDate,    \* currentDate: what time.Now() returned
    movingAvgWeeks, \* config.MovingAvgWeeks
    issues,         \* issues: what QueryJira returned, in its order
    rpc,            \* where GenerateExcelReport is: "begin", "issues", "projections", "done"
    weeks,          \* weeks: the checkpoints, as days at midnight UTC
    reversedWeeks,  \* reversedWeeks
    headers,        \* row 1 of the Work sheet
    workRows,       \* rows 2.. of the Work sheet: column -> cell, one row per issue
    projRows,       \* rows 2.. of the Projections sheet, one row per checkpoint
    rresult,        \* what GenerateExcelReport returned: "none", "ok" or "err"
    \* ---- config.Config ----
    config,         \* the Config that LoadConfig decoded
    validated       \* what config.Validate() returned

histVars == <<raw, histories, parsed, completion, parseErr>>
queryVars == <<serverN, badKey, qpc, startAt, page, idx, allIssues, fetched, requests,
               qresult, traffic>>
reportVars == <<startDate, currentDate, movingAvgWeeks, issues, rpc, weeks, reversedWeeks,
                headers, workRows, projRows, rresult>>
configVars == <<config, validated>>
vars == <<raw, histories, parsed, completion, parseErr,
          serverN, badKey, qpc, startAt, page, idx, allIssues, fetched, requests, qresult,
          traffic,
          startDate, currentDate, movingAvgWeeks, issues, rpc, weeks, reversedWeeks,
          headers, workRows, projRows, rresult,
          config, validated>>

(***************************************************************************)
(* Characters and numerals                                                 *)
(***************************************************************************)
Digits == <<"0", "1", "2", "3", "4", "5", "6", "7", "8", "9">>

IsDigit(c) == \E i \in 1..10 : Digits[i] = c

DigitVal(c) == (CHOOSE i \in 1..10 : Digits[i] = c) - 1

AllDigits(s) == \A i \in 1..Len(s) : IsDigit(s[i])

\* The value of a run of decimal digits (0 for the empty run).
RECURSIVE Atoi(_)
Atoi(s) ==
    IF Len(s) = 0 THEN 0
    ELSE 10 * Atoi(SubSeq(s, 1, Len(s) - 1)) + DigitVal(s[Len(s)])

\* strings.ToLower on the letters the float parser looks at.
ToLower(c) ==
    CASE c = "I" -> "i" [] c = "N" -> "n" [] c = "F" -> "f" [] c = "T" -> "t"
      [] c = "Y" -> "y" [] c = "A" -> "a" [] OTHER -> c

LowerStr(s) == [i \in 1..Len(s) |-> ToLower(s[i])]

\* Two decimal digits of a number below 100, as the formats "01" and "02" print it.
TwoDigits(n) == <<Digits[(n \div 10) + 1], Digits[(n % 10) + 1]>>

(***************************************************************************)
(* The proleptic Gregorian calendar of package time                        *)
(***************************************************************************)
MsPerDay == 86400000

IsLeap(y) == (y % 4 = 0) /\ ((y % 100 # 0) \/ (y % 400 = 0))

DaysIn(y, m) ==
    IF m = 2 THEN (IF IsLeap(y) THEN 29 ELSE 28)
    ELSE IF m \in {4, 6, 9, 11} THEN 30 ELSE 31

\* Days from 1970-01-01 to the civil date y-m-d.
DaysFromCivil(y, m, d) ==
    LET yy  == IF m <= 2 THEN y - 1 ELSE y
        era == yy \div 400
        yoe == yy - era * 400
        mp  == IF m > 2 THEN m - 3 ELSE m + 9
        doy == ((153 * mp + 2) \div 5) + d - 1
        doe == yoe * 365 + (yoe \div 4) - (yoe \div 100) + doy
    IN  era * 146097 + doe - 719468

\* The civil date of a day number.
CivilFromDays(z) ==
    LET zz  == z + 719468
        era == zz \div 146097
        doe == zz - era * 146097
        yoe == (doe - (doe \div 1460) + (doe \div 36524) - (doe \div 146096)) \div 365
        doy == doe - (365 * yoe + (yoe \div 4) - (yoe \div 100))
        mp  == (5 * doy + 2) \div 153
        d   == doy - ((153 * mp + 2) \div 5) + 1
        m   == IF mp < 10 THEN mp + 3 ELSE mp - 9
        y   == yoe + era * 400
    IN  [y |-> IF m <= 2 THEN y + 1 ELSE y, m |-> m, d |-> d]

\* time.Time.Before on instants.
Before(t, u) == (t.day < u.day) \/ (t.day = u.day /\ t.ms < u.ms)

\* The zero time.Time (a createdTime that was never set): 0001-01-01 00:00 UTC.
ZeroTime == [day |-> DaysFromCivil(1, 1, 1), ms |-> 0]

\* A date at midnight UTC (what time.Parse("2006-01-02", ..) and AddDate on it give).
Midnight(day) == [day |-> day, ms |-> 0]

\* date.AddDate(0, 0, n) on a UTC instant.
AddDays(t, n) == [day |-> t.day + n, ms |-> t.ms]

(***************************************************************************)
(* time.Parse(_JIRA_RFC3339_TIME_LAYOUT, s)                                *)
(* layout 2006-01-02T15:04:05.000-0700: 28 characters, fixed-width fields  *)
(***************************************************************************)
JIRA_RFC3339_TIME_LAYOUT_LEN == 28

ParseTime(s) ==
    LET bad == [ok |-> FALSE, t |-> ZeroTime]
    IN
    IF Len(s) # JIRA_RFC3339_TIME_LAYOUT_LEN THEN bad
    ELSE IF ~ ( /\ AllDigits(SubSeq(s, 1, 4))   /\ s[5] = "-"
                /\ AllDigits(SubSeq(s, 6, 7))   /\ s[8] = "-"
                /\ AllDigits(SubSeq(s, 9, 10))  /\ s[11] = "T"
                /\ AllDigits(SubSeq(s, 12, 13)) /\ s[14] = ":"
                /\ AllDigits(SubSeq(s, 15, 16)) /\ s[17] = ":"
                /\ AllDigits(SubSeq(s, 18, 19)) /\ s[20] = "."
                /\ AllDigits(SubSeq(s, 21, 23)) /\ s[24] \in {"+", "-"}
                /\ AllDigits(SubSeq(s, 25, 28)) ) THEN bad
    ELSE
    LET y   == Atoi(SubSeq(s, 1, 4))
        m   == Atoi(SubSeq(s, 6, 7))
        d   == Atoi(SubSeq(s, 9, 10))
        hh  == Atoi(SubSeq(s, 12, 13))
        mi  == Atoi(SubSeq(s, 15, 16))
        ss  == Atoi(SubSeq(s, 18, 19))
        ms  == Atoi(SubSeq(s, 21, 23))
        zh  == Atoi(SubSeq(s, 25, 26))
        zm  == Atoi(SubSeq(s, 27, 28))
        sgn == IF s[24] = "-" THEN -1 ELSE 1
    IN
    IF ~ ( /\ m \in 1..12 /\ d >= 1 /\ d <= DaysIn(y, m)
           /\ hh <= 23 /\ mi <= 59 /\ ss <= 59 /\ zh <= 24 /\ zm <= 60 ) THEN bad
    ELSE
    LET local == ((hh * 60 + mi) * 60 + ss) * 1000 + ms
        off   == sgn * (zh * 60 + zm) * 60000
        \* UTC = local wall clock - zone offset, carried into the day number.
        utc   == local - off
        carry == utc \div MsPerDay
    IN  [ok |-> TRUE,
         t  |-> [day |-> DaysFromCivil(y, m, d) + carry, ms |-> utc - carry * MsPerDay]]

(***************************************************************************)
(* time.Parse("2006-01-02", s) and Time.Format of the two date layouts     *)
(***************************************************************************)
ParseDate(s) ==
    LET bad == [ok |-> FALSE, day |-> 0]
    IN
    IF Len(s) # 10 THEN bad
    ELSE IF ~ ( /\ AllDigits(SubSeq(s, 1, 4)) /\ s[5] = "-"
                /\ AllDigits(SubSeq(s, 6, 7)) /\ s[8] = "-"
                /\ AllDigits(SubSeq(s, 9, 10)) ) THEN bad
    ELSE
    LET y == Atoi(SubSeq(s, 1, 4))
        m == Atoi(SubSeq(s, 6, 7))
        d == Atoi(SubSeq(s, 9, 10))
    IN  IF m \in 1..12 /\ d >= 1 /\ d <= DaysIn(y, m)
        THEN [ok |-> TRUE, day |-> DaysFromCivil(y, m, d)]
        ELSE bad

\* weekDate.Format("01-02")
FormatMonthDay(day) ==
    LET c == CivilFromDays(day) IN TwoDigits(c.m) \o <<"-">> \o TwoDigits(c.d)

\* weekDate.Format("2006-01-02"), for years 1000..9999
FormatDate(day) ==
    LET c == CivilFromDays(day)
    IN  TwoDigits(c.y \div 100) \o TwoDigits(c.y % 100) \o <<"-">>
        \o TwoDigits(c.m) \o <<"-">> \o TwoDigits(c.d)

(***************************************************************************)
(* float64: the values, the comparisons and math.Max                       *)
(***************************************************************************)
Num(v)  == [k |-> "num", v |-> v]      \* v hundredths: Num(20) is 0.20
NaN     == [k |-> "nan", v |-> 0]
PosInf  == [k |-> "inf", v |-> 1]
NegInf  == [k |-> "inf", v |-> -1]

IsNaN(x) == x.k = "nan"

\* x < y on float64: false whenever an operand is NaN.
FLess(x, y) ==
    /\ ~IsNaN(x) /\ ~IsNaN(y)
    /\ \/ x.k = "num" /\ y.k = "num" /\ x.v < y.v
       \/ x.k = "num" /\ y = PosInf
       \/ x = NegInf /\ y.k = "num"
       \/ x = NegInf /\ y = PosInf

\* x <= y on float64: false whenever an operand is NaN.
FLeq(x, y) == ~IsNaN(x) /\ ~IsNaN(y) /\ (x = y \/ FLess(x, y))

\* math.Max: +Inf wins over everything, then NaN, then the larger operand.
FMax(x, y) ==
    IF x = PosInf \/ y = PosInf THEN PosInf
    ELSE IF IsNaN(x) \/ IsNaN(y) THEN NaN
    ELSE IF FLess(x, y) THEN y ELSE x

(***************************************************************************)
(* strconv.ParseFloat(s, 64) on the forms the model's inputs use: the      *)
(* special values (inf, infinity with an optional sign, nan without one,   *)
(* any case) and decimal numerals with an optional sign and at most two    *)
(* fraction digits.  Anything else here is a syntax error.                 *)
(***************************************************************************)
ParseFloat(s) ==
    LET bad    == [ok |-> FALSE, val |-> Num(0)]
        signed == Len(s) > 0 /\ s[1] \in {"+", "-"}
        sgn    == IF signed /\ s[1] = "-" THEN -1 ELSE 1
        body   == IF signed THEN SubSeq(s, 2, Len(s)) ELSE s
        low    == LowerStr(body)
        dots   == {i \in 1..Len(body) : body[i] = "."}
    IN
    IF low = <<"i", "n", "f">> \/ low = <<"i", "n", "f", "i", "n", "i", "t", "y">>
    THEN [ok |-> TRUE, val |-> IF sgn = 1 THEN PosInf ELSE NegInf]
    ELSE IF ~signed /\ low = <<"n", "a", "n">> THEN [ok |-> TRUE, val |-> NaN]
    ELSE IF Cardinality(dots) > 1 THEN bad
    ELSE
    LET dot  == IF dots = {} THEN Len(body) + 1 ELSE CHOOSE i \in dots : TRUE
        int  == SubSeq(body, 1, dot - 1)
        frac == SubSeq(body, dot + 1, Len(body))
    IN
    IF Len(int) + Len(frac) = 0 \/ ~AllDigits(int) \/ ~AllDigits(frac) \/ Len(frac) > 2
    THEN bad
    ELSE [ok |-> TRUE,
          val |-> Num(sgn * (100 * Atoi(int)
                             + (IF Len(frac) = 1 THEN 10 * Atoi(frac) ELSE Atoi(frac))))]

(***************************************************************************)
(* Configuration (config.Config)                                           *)
(***************************************************************************)
\* config.Jira.PercentCompleteField
PercentCompleteField == "Percentage Complete"

(***************************************************************************)
(* The changelog (jira.History) and the inputs the model draws from        *)
(***************************************************************************)
\* An item of a changelog entry: the field changed and its new value.
Item(field, to) == [Field |-> field, ToString |-> to]

PercentItem(to) == Item(PercentCompleteField, to)

StatusItem(to) == Item("status", to)

\* A changelog entry as json.Unmarshal leaves it: createdTime is the zero time.
History(created, items) == [Created |-> created, Items |-> items, createdTime |-> ZeroTime]

\* The first checkpoint of the model's reports, 2024-01-01, and the days after it.
Day(n) == DaysFromCivil(2024, 1, 1) + n

\* A Jira timestamp in the fixed layout, for January 2024.
Stamp(d, hh, mi, ss, ms, sign, zh, zm) ==
    <<"2", "0", "2", "4", "-", "0", "1", "-">> \o TwoDigits(d) \o <<"T">>
    \o TwoDigits(hh) \o <<":">> \o TwoDigits(mi) \o <<":">> \o TwoDigits(ss) \o <<".">>
    \o <<Digits[(ms \div 100) + 1]>> \o TwoDigits(ms % 100)
    \o <<sign>> \o TwoDigits(zh) \o TwoDigits(zm)

\* The same instant written without the milliseconds: not in the layout.
StampNoMillis(d, hh) ==
    <<"2", "0", "2", "4", "-", "0", "1", "-">> \o TwoDigits(d) \o <<"T">>
    \o TwoDigits(hh) \o <<":", "0", "0", ":", "0", "0", "+", "0", "0", "0", "0">>

Str_Done == <<"D", "o", "n", "e">>
Str_Closed == <<"C", "l", "o", "s", "e", "d">>
Str_InProgress == <<"I", "n", " ", "P", "r", "o", "g", "r", "e", "s", "s">>

\* config.Jira.DoneStatuses
DoneStatuses == <<Str_Done, Str_Closed>>

\* Config.IsDoneStatus: slices.Contains(c.Jira.DoneStatuses, status)
IsDoneStatus(status) == \E i \in 1..Len(DoneStatuses) : DoneStatuses[i] = status

\* The changelog entries an issue's history is drawn from.
H_Pct20      == History(Stamp(2, 10, 0, 0, 0, "+", 0, 0), <<PercentItem(<<"2", "0">>)>>)
H_Pct020     == History(Stamp(2, 10, 0, 0, 0, "+", 0, 0), <<PercentItem(<<"0", ".", "2", "0">>)>>)
H_Done3      == History(Stamp(4, 10, 0, 0, 0, "+", 0, 0), <<StatusItem(Str_Done)>>)
H_NaN2       == History(Stamp(3, 10, 0, 0, 0, "+", 0, 0), <<PercentItem(<<"N", "a", "N">>)>>)
H_Over2      == History(Stamp(3, 0, 0, 0, 0, "+", 0, 0), <<PercentItem(<<"1", ".", "5">>)>>)
H_Neg1       == History(Stamp(2, 23, 59, 59, 999, "+", 0, 0),
                        <<PercentItem(<<"-", "0", ".", "5">>), StatusItem(Str_InProgress)>>)
H_BadValue2  == History(Stamp(3, 12, 0, 0, 0, "+", 0, 0), <<PercentItem(<<"a", "b", "c">>)>>)
H_BadStamp   == History(StampNoMillis(2, 10), <<StatusItem(Str_Done)>>)
H_Zone1      == History(Stamp(2, 23, 30, 0, 0, "-", 5, 0), <<PercentItem(<<"0", ".", "5">>)>>)
H_Closed0    == History(Stamp(1, 8, 0, 0, 0, "+", 0, 0),
                        <<StatusItem(Str_Closed), PercentItem(<<"0", ".", "7", "5">>)>>)
H_Reopen3    == History(Stamp(4, 9, 0, 0, 0, "+", 0, 0),
                        <<StatusItem(Str_InProgress), PercentItem(<<"+", "I", "n", "f">>)>>)

\* A changelog of 13 entries: the status set to "Done" and the percent field set to
\* "NaN" in the same millisecond of 2024-01-03, then eleven status changes on 2024-01-05.
H_Done2 == History(Stamp(3, 10, 0, 0, 0, "+", 0, 0), <<StatusItem(Str_Done)>>)

LongChangelog ==
    <<H_Done2, H_NaN2>>
    \o [i \in 1..11 |-> History(Stamp(5, i, 0, 0, 0, "+", 0, 0), <<StatusItem(Str_InProgress)>>)]

HistoryPool ==
    {H_Pct20, H_Pct020, H_Done3, H_NaN2, H_Over2, H_Neg1, H_BadValue2, H_BadStamp,
     H_Zone1, H_Closed0, H_Reopen3}

\* The longest changelog of the model.
MaxHistories == 3

\* The query dates: the checkpoints 2024-01-01 .. 2024-01-04 at midnight UTC.
MaxDate == 3

Dates == {Day(n) : n \in 0..MaxDate}

SeqsUpTo(S, n) == UNION {[1..k -> S] : k \in 0..n}

(***************************************************************************)
(* Issue.parseHistoryTimes                                                 *)
(***************************************************************************)
\* sort.Slice switches from insertion sort to pattern-defeating quicksort above this length.
maxInsertion == 12

\* The less function handed to sort.Slice.
LessByCreatedTime(h1, h2) == Before(h1.createdTime, h2.createdTime)

\* insertionSort of package sort: each element is swapped down while it is less
\* than its predecessor.
RECURSIVE SinkLast(_)
SinkLast(s) ==
    LET n == Len(s)
    IN  IF n >= 2 /\ LessByCreatedTime(s[n], s[n - 1])
        THEN SinkLast(SubSeq(s, 1, n - 2) \o <<s[n]>>) \o <<s[n - 1]>>
        ELSE s

RECURSIVE InsertionSort(_)
InsertionSort(s) ==
    IF Len(s) <= 1 THEN s
    ELSE SinkLast(InsertionSort(SubSeq(s, 1, Len(s) - 1)) \o <<s[Len(s)]>>)

IsSortedByCreatedTime(s) ==
    \A i \in 1..(Len(s) - 1) : ~LessByCreatedTime(s[i + 1], s[i])

\* t holds the elements of s, each as often as s does.
IsPermutation(s, t) ==
    /\ Len(s) = Len(t)
    /\ \A x \in {s[i] : i \in 1..Len(s)} \cup {t[i] : i \in 1..Len(t)} :
          Cardinality({i \in 1..Len(s) : s[i] = x}) = Cardinality({i \in 1..Len(t) : t[i] = x})

\* s without its i-th element.
RemoveAt(s, i) == SubSeq(s, 1, i - 1) \o SubSeq(s, i + 1, Len(s))

\* The sorted lists that are permutations of the sorted list s: any of the
\* entries not after the first may come first.
RECURSIVE SortedArrangements(_)
SortedArrangements(s) ==
    IF Len(s) = 0 THEN {<<>>}
    ELSE UNION {{<<s[i]>> \o r : r \in SortedArrangements(RemoveAt(s, i))} :
                i \in {k \in 1..Len(s) : ~LessByCreatedTime(s[1], s[k])}}

\* What sort.Slice may leave: the insertion sort's order for a short slice; for a
\* longer one the order of equal elements is unspecified.
SortSliceOutcomes(s) ==
    IF Len(s) <= maxInsertion THEN {InsertionSort(s)}
    ELSE SortedArrangements(InsertionSort(s))

\* A nil error.
NoError == [type |-> "nil"]

Str_Layout ==
    <<"2", "0", "0", "6", "-", "0", "1", "-", "0", "2", "T", "1", "5", ":", "0", "4", ":",
      "0", "5", ".", "0", "0", "0", "-", "0", "7", "0", "0">>

\* The *time.ParseError of time.Parse(_JIRA_RFC3339_TIME_LAYOUT, value): its message
\* quotes the value and the layout (and the parts of both where parsing stopped).
ParseError(value) == [type |-> "time.ParseError", Layout |-> Str_Layout, Value |-> value]

Str_ParseFloat == <<"P", "a", "r", "s", "e", "F", "l", "o", "a", "t">>

Str_InvalidSyntax ==
    <<"i", "n", "v", "a", "l", "i", "d", " ", "s", "y", "n", "t", "a", "x">>

\* The *strconv.NumError of strconv.ParseFloat(num, 64): the function, the text and
\* the reason.
NumError(num) ==
    [type |-> "strconv.NumError", Func |-> Str_ParseFloat, Num |-> num,
     Err |-> Str_InvalidSyntax]

\* A best-effort loop: an entry whose timestamp does not parse is dropped.
UpdatedHistories_SkipBad(hs) ==
    LET good == SelectSeq(hs, LAMBDA h : ParseTime(h.Created).ok)
    IN  [err |-> FALSE,
         error |-> NoError,
         hs  |-> [i \in 1..Len(good) |->
                     [good[i] EXCEPT !.createdTime = ParseTime(good[i].Created).t]]]

\* The loop of parseHistoryTimes: the entries with their parsed times, or the
\* failure of the first timestamp that does not parse.
UpdatedHistories(hs) ==
    IF \E i \in 1..Len(hs) : ~ParseTime(hs[i].Created).ok
    THEN LET first == CHOOSE i \in 1..Len(hs) :
                         /\ ~ParseTime(hs[i].Created).ok
                         /\ \A j \in 1..(i - 1) : ParseTime(hs[j].Created).ok
         IN  [err |-> TRUE, error |-> ParseError(hs[first].Created), hs |-> hs]
    ELSE [err |-> FALSE,
          error |-> NoError,
          hs  |-> [i \in 1..Len(hs) |->
                      [hs[i] EXCEPT !.createdTime = ParseTime(hs[i].Created).t]]]

\* The outcomes of issue.parseHistoryTimes(): the error and the list it leaves.
parseHistoryTimes(hs) ==
    LET u == UpdatedHistories(hs)
    IN  IF u.err THEN {[err |-> TRUE, error |-> u.error, hs |-> hs]}
        ELSE {[err |-> FALSE, error |-> NoError, hs |-> t] : t \in SortSliceOutcomes(u.hs)}

(***************************************************************************)
(* Issue.PercentCompleteOnDate                                             *)
(***************************************************************************)
\* A switch that passes over a value that does not parse.
RECURSIVE ScanItems_SkipBad(_, _)
ScanItems_SkipBad(items, acc) ==
    IF acc.err \/ Len(items) = 0 THEN acc
    ELSE
    LET item == Head(items)
        next ==
            IF item.Field = PercentCompleteField
            THEN LET p == ParseFloat(item.ToString)
                 IN  IF ~p.ok THEN acc
                     ELSE [err |-> FALSE, error |-> NoError, val |-> FMax(acc.val, p.val)]
            ELSE IF item.Field = "status" /\ IsDoneStatus(item.ToString)
            THEN [err |-> FALSE, error |-> NoError, val |-> Num(100)]
            ELSE acc
    IN  ScanItems_SkipBad(Tail(items), next)

\* The switch on item.Field for the items of one changelog entry.
RECURSIVE ScanItems(_, _)
ScanItems(items, acc) ==
    IF acc.err \/ Len(items) = 0 THEN acc
    ELSE
    LET item == Head(items)
        next ==
            IF item.Field = PercentCompleteField
            THEN LET p == ParseFloat(item.ToString)
                 IN  IF ~p.ok
                     THEN [err |-> TRUE, error |-> NumError(item.ToString), val |-> Num(0)]
                     ELSE [err |-> FALSE, error |-> NoError, val |-> FMax(acc.val, p.val)]
            ELSE IF item.Field = "status" /\ IsDoneStatus(item.ToString)
            THEN [err |-> FALSE, error |-> NoError, val |-> Num(100)]
            ELSE acc
    IN  ScanItems(Tail(items), next)

\* The loop over issue.Changelog.Histories: every entry created before the
\* beginning of the next day is scanned, the others are passed over.
RECURSIVE ScanHistories(_, _, _)
ScanHistories(hs, beginningOfNextDay, acc) ==
    IF acc.err \/ Len(hs) = 0 THEN acc
    ELSE ScanHistories(Tail(hs), beginningOfNextDay,
                       IF Before(Head(hs).createdTime, beginningOfNextDay)
                       THEN ScanItems(Head(hs).Items, acc)
                       ELSE acc)

\* A clamp that forgets the upper limit.
Clamp_NoUpper(x) == IF FLess(x, Num(0)) THEN Num(0) ELSE x

\* The clamp at the end of PercentCompleteOnDate.
Clamp(x) ==
    LET lo == IF FLess(x, Num(0)) THEN Num(0) ELSE x
    IN  IF FLess(Num(100), lo) THEN Num(100) ELSE lo

\* issue.PercentCompleteOnDate(config, date) for a date at midnight UTC.
PercentCompleteOnDate(hs, date) ==
    LET scan == ScanHistories(hs, AddDays(Midnight(date), 1),
                              [err |-> FALSE, error |-> NoError, val |-> Num(0)])
    IN  IF scan.err THEN [err |-> TRUE, error |-> scan.error, val |-> Num(0)]
        ELSE [err |-> FALSE, error |-> NoError, val |-> Clamp(scan.val)]

(***************************************************************************)
(* One issue: unmarshalled, its times parsed, its completion queried       *)
(***************************************************************************)
\* Issue.Key of the issue whose changelog is reconstructed.
IssueKey == <<"B", "D", "-", "1">>

NotCalled == [st |-> "none", error |-> NoError, val |-> Num(0)]

Outcome(r) == [st |-> IF r.err THEN "err" ELSE "ok", error |-> r.error, val |-> r.val]

HistInit ==
    /\ raw \in SeqsUpTo(HistoryPool, MaxHistories) \cup {LongChangelog}
    /\ histories = raw
    /\ parsed = "raw"
    /\ completion = [d \in Dates |-> NotCalled]
    /\ parseErr = NoError

\* getIssueDetails calls issue.parseHistoryTimes() on the unmarshalled issue.
ParseHistoryTimes ==
    /\ parsed = "raw"
    /\ \E r \in parseHistoryTimes(histories) :
          /\ histories' = r.hs
          /\ parsed' = IF r.err THEN "err" ELSE "ok"
          /\ parseErr' = r.error
    /\ UNCHANGED <<raw, completion>>

\* The completion of a fetched issue is asked for date by date, the newest date
\* first, as the report's loop over reversedWeeks does.
CallPercentCompleteOnDate(d) ==
    /\ parsed = "ok"
    /\ completion[d].st = "none"
    /\ \A e \in Dates : e > d => completion[e].st # "none"
    /\ completion' = [completion EXCEPT ![d] = Outcome(PercentCompleteOnDate(histories, d))]
    /\ UNCHANGED <<raw, histories, parsed, parseErr>>

HistNext ==
    \/ ParseHistoryTimes
    \/ \E d \in Dates : CallPercentCompleteOnDate(d)

(***************************************************************************)
(* jira.QueryJira and getIssueDetails                                      *)
(***************************************************************************)
\* _RESULTS_PER_PAGE
RESULTS_PER_PAGE == 100

\* The largest result set of the model.
MaxServerIssues == 201

\* The issues whose changelog may hold the malformed timestamp (0: none has).
BadKeys == {0, 1, RESULTS_PER_PAGE + 1}

Min(a, b) == IF a < b THEN a ELSE b

Sgn(x) == IF x > 0 THEN 1 ELSE IF x < 0 THEN -1 ELSE 0

Abs(x) == IF x < 0 THEN -x ELSE x

\* The search endpoint: the request with startAt = s and maxResults = m is answered
\* with the keys of the issues s+1 .. min(s+m, N), in the server's order.
ServerPage(s, m) == [i \in 1..(Min(s + m, serverN) - Min(s, serverN)) |-> s + i]

\* The issue endpoint: the changelog of an issue, in the order the server sends it.
ServerChangelog(key) ==
    IF key = badKey THEN <<H_Pct020, H_BadStamp>> ELSE <<H_Done3, H_Pct020>>

NoFetch == [key |-> 0, unmarshalled |-> <<>>, histories |-> <<>>, nil |-> TRUE, err |-> FALSE]

NoResult == [returned |-> FALSE, nil |-> TRUE, issues |-> <<>>, err |-> FALSE]

\* return nil, errors.WithStack(err)
NilErr == [returned |-> TRUE, nil |-> TRUE, issues |-> <<>>, err |-> TRUE]

QueryIdle ==
    /\ serverN = 0 /\ badKey = 0 /\ qpc = "idle" /\ startAt = 0 /\ page = <<>> /\ idx = 1
    /\ allIssues = <<>> /\ fetched = NoFetch /\ requests = <<>> /\ qresult = NoResult
    /\ traffic = <<>>

HistIdle ==
    /\ raw = <<>> /\ histories = <<>> /\ parsed = "idle"
    /\ completion = [d \in Dates |-> NotCalled]
    /\ parseErr = NoError

\* QueryJira up to the loop: allIssues is nil, startAt is 0.
QueryInit ==
    /\ serverN \in 0..MaxServerIssues
    /\ badKey \in {k \in BadKeys : k <= serverN}
    /\ qpc = "search"
    /\ startAt = 0
    /\ page = <<>>
    /\ idx = 1
    /\ allIssues = <<>>
    /\ fetched = NoFetch
    /\ requests = <<>>
    /\ qresult = NoResult
    /\ traffic = <<>>

\* The search request of one page and its answer.  The request, the transport, the
\* status code or the JSON may fail: QueryJira returns nil and the error.
SearchPage ==
    /\ qpc = "search"
    /\ requests' = Append(requests, startAt)
    /\ traffic' = Append(traffic, "search")
    /\ \E failed \in BOOLEAN :
          IF failed
          THEN /\ qpc' = "done"
               /\ qresult' = NilErr
               /\ UNCHANGED <<page, idx>>
          ELSE /\ page' = ServerPage(startAt, RESULTS_PER_PAGE)
               /\ idx' = 1
               /\ qpc' = "detail"
               /\ UNCHANGED qresult
    /\ UNCHANGED <<serverN, badKey, startAt, allIssues, fetched>>

\* getIssueDetails(.., issueKey): the issue is fetched and unmarshalled, then its
\* history times are parsed; any failure returns nil and the error.
getIssueDetails(key) ==
    {[key |-> key, unmarshalled |-> <<>>, histories |-> <<>>, nil |-> TRUE, err |-> TRUE]}
    \cup
    {[key          |-> key,
      unmarshalled |-> ServerChangelog(key),
      histories    |-> r.hs,
      nil          |-> r.err,
      err          |-> r.err] : r \in parseHistoryTimes(ServerChangelog(key))}

\* One turn of the loop over searchResp.Issues.
FetchIssueDetails ==
    /\ qpc = "detail"
    /\ idx <= Len(page)
    /\ \E r \in getIssueDetails(page[idx]) :
          /\ fetched' = r
          /\ IF r.err
             THEN /\ qpc' = "done"
                  /\ qresult' = NilErr
                  /\ UNCHANGED <<allIssues, idx>>
             ELSE /\ allIssues' = Append(allIssues, r.key)
                  /\ idx' = idx + 1
                  /\ UNCHANGED <<qpc, qresult>>
    /\ traffic' = Append(traffic, "issue")
    /\ UNCHANGED <<serverN, badKey, startAt, page, requests>>

\* A page that ends pagination.
LastPage_OrFull(p) == Len(p) <= RESULTS_PER_PAGE

\* len(searchResp.Issues) < maxResults
LastPage(p) == Len(p) < RESULTS_PER_PAGE

\* After the loop over the page: stop after a short page, else move startAt on.
PageDone ==
    /\ qpc = "detail"
    /\ idx > Len(page)
    /\ IF LastPage(page)
       THEN /\ qpc' = "done"
            /\ qresult' = [returned |-> TRUE, nil |-> allIssues = <<>>,
                           issues |-> allIssues, err |-> FALSE]
            /\ UNCHANGED startAt
       ELSE /\ startAt' = startAt + RESULTS_PER_PAGE
            /\ qpc' = "sleep"
            /\ UNCHANGED qresult
    /\ UNCHANGED <<serverN, badKey, page, idx, allIssues, fetched, requests, traffic>>

\* time.Sleep(time.Second), then the next turn of the loop.
Sleep ==
    /\ qpc = "sleep"
    /\ qpc' = "search"
    /\ traffic' = Append(traffic, "sleep")
    /\ UNCHANGED <<serverN, badKey, startAt, page, idx, allIssues, fetched, requests,
                   qresult>>

QueryNext ==
    \/ SearchPage
    \/ FetchIssueDetails
    \/ PageDone
    \/ Sleep

(***************************************************************************)
(* excel.GenerateExcelReport: the inputs                                   *)
(***************************************************************************)
\* The changelog entries of the issues a report is written for.
H_Jan02_Pct020 == History(Stamp(2, 10, 0, 0, 0, "+", 0, 0), <<PercentItem(<<"0", ".", "2", "0">>)>>)
H_Jan10_Pct05  == History(Stamp(10, 9, 0, 0, 0, "+", 0, 0), <<PercentItem(<<"0", ".", "5">>)>>)
H_Jan20_Done   == History(Stamp(20, 17, 0, 0, 0, "+", 0, 0), <<StatusItem(Str_Done)>>)
H_Jan10_NaN    == History(Stamp(10, 9, 30, 0, 0, "+", 0, 0), <<PercentItem(<<"N", "a", "N">>)>>)
H_Jan31_Bad    == History(Stamp(31, 12, 0, 0, 0, "+", 0, 0), <<PercentItem(<<"n", "/", "a">>)>>)

\* The issues the query may return: the key, Issue.GetSize and the changelog as
\* the server sends it.
IssuePool ==
    {[Key |-> "BD-1", Size |-> 3, Log |-> <<H_Jan20_Done, H_Jan02_Pct020, H_Jan10_Pct05>>],
     [Key |-> "BD-2", Size |-> 2, Log |-> <<H_Closed0>>],
     [Key |-> "BD-3", Size |-> 1, Log |-> <<H_BadValue2>>],
     [Key |-> "BD-4", Size |-> 2, Log |-> <<H_Zone1, H_Jan10_NaN>>],
     [Key |-> "BD-5", Size |-> 5, Log |-> <<>>],
     [Key |-> "BD-6", Size |-> 1, Log |-> <<H_Pct020, H_Jan31_Bad>>]}

\* The most issues of a report.
MaxReportIssues == 2

\* The widest moving-average window configured.
MaxMovingAvgWeeks == 3

\* config.StartDate: 2024-01-01 and 2024-02-12, both Mondays.
StartDates ==
    {<<"2", "0", "2", "4", "-", "0", "1", "-", "0", "1">>,
     <<"2", "0", "2", "4", "-", "0", "2", "-", "1", "2">>}

\* The instants time.Now() returns: noon of some days after 2024-01-01, and the
\* midnight that is itself a checkpoint.
Nows ==
    {Midnight(Day(7))}
    \cup {[day |-> Day(n), ms |-> MsPerDay \div 2] : n \in {6, 20, 27, 34, 41, 70, 1827}}

\* The issue as QueryJira returns it at the instant now: the changelog holds the
\* entries made so far, their times parsed, sorted by time.
FetchedIssue(i, now) ==
    [Key       |-> i.Key,
     Size      |-> i.Size,
     Histories |-> SelectSeq(InsertionSort(UpdatedHistories(i.Log).hs),
                             LAMBDA h : Before(h.createdTime, now))]

\* The issue lists of at most n distinct issues.
IssueLists(n, now) ==
    {[k \in 1..Len(s) |-> FetchedIssue(s[k], now)] :
        s \in {t \in SeqsUpTo(IssuePool, n) :
                  \A a, b \in 1..Len(t) : a # b => t[a] # t[b]}}

(***************************************************************************)
(* excel.GenerateExcelReport: the Work sheet                               *)
(***************************************************************************)
\* A loop that leaves out the checkpoint that is the instant now itself.
WeeksFrom_BeforeOnly(d, now) ==
    LET InLoop(k) == Before(AddDays(d, 7 * k), now)
        turns     == CHOOSE n \in 0..(Abs(now.day - d.day) + 1) :
                        ~InLoop(n) /\ \A k \in 0..(n - 1) : InLoop(k)
    IN  [k \in 1..turns |-> AddDays(d, 7 * (k - 1)).day]

\* The loop that fills weeks: d starts at startDate and moves on 7 days after each
\* turn; a turn appends d; the loop ends at the first d that is after now.
WeeksFrom(d, now) ==
    LET InLoop(k) == Before(AddDays(d, 7 * k), now) \/ AddDays(d, 7 * k) = now
        turns     == CHOOSE n \in 0..(Abs(now.day - d.day) + 1) :
                        ~InLoop(n) /\ \A k \in 0..(n - 1) : InLoop(k)
    IN  [k \in 1..turns |-> AddDays(d, 7 * (k - 1)).day]

\* The copy of weeks, reversed in place.
Reverse(s) == [i \in 1..Len(s) |-> s[Len(s) + 1 - i]]

Str_Size == <<"S", "i", "z", "e">>

\* The first six headers of the Work sheet.
FixedHeaders ==
    << <<"I", "s", "s", "u", "e", " ", "K", "e", "y">>,
       <<"S", "u", "m", "m", "a", "r", "y">>,
       <<"T", "y", "p", "e">>,
       <<"S", "t", "a", "t", "u", "s">>,
       <<"A", "s", "s", "i", "g", "n", "e", "e">>,
       Str_Size >>

\* fmt.Sprintf("%% %s", weekDate.Format("01-02"))
PercentLabel(day) == <<"%", " ">> \o FormatMonthDay(day)

\* fmt.Sprintf("EV %s", weekDate.Format("01-02"))
EVLabel(day) == <<"E", "V", " ">> \o FormatMonthDay(day)

\* The header row: the fixed headers, then "% mm-dd" and "EV mm-dd" for every week
\* of rw, each written to the cell CoordinatesToCellName(i+1, 1) names.
WorkHeaders(rw) ==
    FixedHeaders
    \o [j \in 1..(2 * Len(rw)) |->
           IF j % 2 = 1 THEN PercentLabel(rw[(j + 1) \div 2]) ELSE EVLabel(rw[j \div 2])]

\* rune('A' + col - 1): the code point the weekly loop turns a column into.
ColumnRune(col) == 65 + col - 1

\* excelize on a cell name made of one character and a row number: a letter names
\* a column, upper or lower case; anything else is not a cell name.
CellNameColumn(rune) ==
    IF rune \in 65..90 THEN [ok |-> TRUE, col |-> rune - 64]
    ELSE IF rune \in 97..122 THEN [ok |-> TRUE, col |-> rune - 96]
    ELSE [ok |-> FALSE, col |-> 0]

\* A cell holding a number (in hundredths).
ValueCell(n) == [t |-> "value", v |-> n, ref |-> 0]

\* The earned-value formula =IF(p=0, "", p * HLOOKUP("Size", 1:r, r, 0)), p being
\* the cell of column pcol in the same row.
EarnedFormula(pcol) == [t |-> "ev", v |-> 0, ref |-> pcol]

\* A row with the cell of column c set.
SetCell(row, c, cell) == [x \in (DOMAIN row) \cup {c} |-> IF x = c THEN cell ELSE row[x]]

\* The weekly loop of one issue row, from the k-th week of rw on: the percent
\* value is written when it is greater than zero, the percent cell is styled, the
\* earned-value formula is set.  Any failure ends the report.
RECURSIVE WriteWeeks(_, _, _, _)
WriteWeeks(issue, rw, k, row) ==
    IF k > Len(rw) THEN [err |-> FALSE, row |-> row]
    ELSE
    LET col         == 7 + 2 * (k - 1)
        pc          == PercentCompleteOnDate(issue.Histories, rw[k])
        percentCell == CellNameColumn(ColumnRune(col))
        earnedCell  == CellNameColumn(ColumnRune(col + 1))
        withPercent == IF FLess(Num(0), pc.val)
                       THEN SetCell(row, percentCell.col, ValueCell(pc.val.v))
                       ELSE row
    IN  IF pc.err \/ ~percentCell.ok \/ ~earnedCell.ok
        THEN [err |-> TRUE, row |-> row]
        ELSE WriteWeeks(issue, rw, k + 1,
                        SetCell(withPercent, earnedCell.col, EarnedFormula(percentCell.col)))

\* One issue row: the size in column F, then the weekly cells.
IssueRow(issue, rw) ==
    WriteWeeks(issue, rw, 1, [c \in {6} |-> ValueCell(100 * issue.Size)])

(***************************************************************************)
(* excel.GenerateExcelReport: the Projections sheet                        *)
(***************************************************************************)
\* A projection that starts the deviation and the bands one row early.
ProjectionColumns_FromTwo(weekIndex) ==
    {"A", "B", "C"}
    \cup (IF weekIndex > 0 THEN {"D"} ELSE {})
    \cup (IF weekIndex > 1 THEN {"E", "F", "G", "H", "I", "J", "K"} ELSE {})

\* The columns the loop over weeks gives a value or a formula in the row of
\* weekIndex: date, completed, remaining; velocity; average; deviation, the three
\* projected dates and the fast and slow velocities.
ProjectionColumns(weekIndex) ==
    {"A", "B", "C"}
    \cup (IF weekIndex > 0 THEN {"D"} ELSE {})
    \cup (IF weekIndex > 1 THEN {"E"} ELSE {})
    \cup (IF weekIndex > 2 THEN {"F", "G", "H", "I", "J", "K"} ELSE {})

\* The row of weekIndex: the date as text and the columns set.
ProjectionRow(weekIndex, day) ==
    [date |-> FormatDate(day), cols |-> ProjectionColumns(weekIndex)]

(***************************************************************************)
(* excel.GenerateExcelReport: the run                                      *)
(***************************************************************************)
ReportIdle ==
    /\ startDate = <<>> /\ currentDate = ZeroTime /\ movingAvgWeeks = 0 /\ issues = <<>>
    /\ rpc = "idle" /\ weeks = <<>> /\ reversedWeeks = <<>> /\ headers = <<>>
    /\ workRows = <<>> /\ projRows = <<>> /\ rresult = "none"

ReportInit ==
    /\ startDate \in StartDates
    /\ currentDate \in Nows
    /\ movingAvgWeeks \in 1..MaxMovingAvgWeeks
    /\ issues \in IssueLists(MaxReportIssues, currentDate)
    /\ rpc = "begin"
    /\ weeks = <<>>
    /\ reversedWeeks = <<>>
    /\ headers = <<>>
    /\ workRows = <<>>
    /\ projRows = <<>>
    /\ rresult = "none"

\* Up to the issue rows: the start date is parsed, the weeks are listed and
\* reversed, the header row is written.
ReportBegin ==
    /\ rpc = "begin"
    /\ LET sd == ParseDate(startDate)
       IN  IF ~sd.ok
           THEN /\ rpc' = "done"
                /\ rresult' = "err"
                /\ UNCHANGED <<weeks, reversedWeeks, headers>>
           ELSE LET ws == WeeksFrom(Midnight(sd.day), currentDate)
                IN  /\ weeks' = ws
                    /\ reversedWeeks' = Reverse(ws)
                    /\ headers' = WorkHeaders(Reverse(ws))
                    /\ rpc' = "issues"
                    /\ UNCHANGED rresult
    /\ UNCHANGED <<startDate, currentDate, movingAvgWeeks, issues, workRows, projRows>>

\* One turn of the loop over issues.
WriteIssueRow ==
    /\ rpc = "issues"
    /\ Len(workRows) < Len(issues)
    /\ LET r == IssueRow(issues[Len(workRows) + 1], reversedWeeks)
       IN  IF r.err
           THEN /\ rpc' = "done"
                /\ rresult' = "err"
                /\ UNCHANGED workRows
           ELSE /\ workRows' = Append(workRows, r.row)
                /\ UNCHANGED <<rpc, rresult>>
    /\ UNCHANGED <<startDate, currentDate, movingAvgWeeks, issues, weeks, reversedWeeks,
                   headers, projRows>>

\* After the loop over issues: the Projections sheet and its header row.
NewProjectionsSheet ==
    /\ rpc = "issues"
    /\ Len(workRows) = Len(issues)
    /\ rpc' = "projections"
    /\ UNCHANGED <<startDate, currentDate, movingAvgWeeks, issues, weeks, reversedWeeks,
                   headers, workRows, projRows, rresult>>

\* One turn of the loop over weeks, oldest first.
WriteProjectionRow ==
    /\ rpc = "projections"
    /\ Len(projRows) < Len(weeks)
    /\ projRows' = Append(projRows, ProjectionRow(Len(projRows), weeks[Len(projRows) + 1]))
    /\ UNCHANGED <<startDate, currentDate, movingAvgWeeks, issues, rpc, weeks, reversedWeeks,
                   headers, workRows, rresult>>

\* f.SaveAs(config.OutputFile): the file is written, or the error is returned.
SaveAs ==
    /\ rpc = "projections"
    /\ Len(projRows) = Len(weeks)
    /\ rpc' = "done"
    /\ \E failed \in BOOLEAN : rresult' = IF failed THEN "err" ELSE "ok"
    /\ UNCHANGED <<startDate, currentDate, movingAvgWeeks, issues, weeks, reversedWeeks,
                   headers, workRows, projRows>>

ReportNext ==
    \/ ReportBegin
    \/ WriteIssueRow
    \/ NewProjectionsSheet
    \/ WriteProjectionRow
    \/ SaveAs

(***************************************************************************)
(* The formulas of the workbook, as a spreadsheet evaluates them           *)
(* Numbers are in hundredths; weekIndex w is the row w + 2 of Projections. *)
(***************************************************************************)
\* MATCH(label, Work!$1:$1, 0): the position of the first cell equal to label
\* (0 stands for #N/A).
HeaderMatch(label) ==
    LET js == {j \in 1..Len(headers) : headers[j] = label}
    IN  IF js = {} THEN 0 ELSE CHOOSE j \in js : \A k \in js : j <= k

\* The number a cell of a Work row contributes to a SUM: a number counts, an empty
\* cell and the text "" of an earned-value formula whose percent cell is 0 or
\* empty do not.
CellNumber(row, c) ==
    IF c \notin DOMAIN row THEN 0
    ELSE IF row[c].t = "value" THEN row[c].v
    ELSE LET p    == IF row[c].ref \in DOMAIN row /\ row[row[c].ref].t = "value"
                     THEN row[row[c].ref].v ELSE 0
             sc   == HeaderMatch(Str_Size)
             size == IF sc \in DOMAIN row /\ row[sc].t = "value" THEN row[sc].v ELSE 0
         IN  IF p = 0 THEN 0 ELSE (p * size) \div 100

\* SUM(INDEX(Work!$2:$10000, , c))
RECURSIVE SumColumn(_, _)
SumColumn(c, r) ==
    IF r > Len(workRows) THEN 0 ELSE CellNumber(workRows[r], c) + SumColumn(c, r + 1)

\* TEXT(A, "mm-dd") of a date cell, and the label "EV "&TEXT(A, "mm-dd")
RowLabel(w) == <<"E", "V", " ">> \o FormatMonthDay(ParseDate(projRows[w + 1].date).day)

\* Column B: =SUM(INDEX(Work!$2:$10000, , MATCH("EV "&TEXT(A,"mm-dd"), Work!$1:$1, 0)))
Completed(w) == SumColumn(HeaderMatch(RowLabel(w)), 1)

\* Column C: =SUM(INDEX(Work!$2:$10000, , MATCH("Size", Work!$1:$1, 0))) - B
Remaining(w) == SumColumn(HeaderMatch(Str_Size), 1) - Completed(w)

\* Column D: =B - B of the row above
Velocity(w) == Completed(w) - Completed(w - 1)

\* MIN(COUNT(D$3:D), movingAvgWeeks): the velocities from row 3 down to this row,
\* at most movingAvgWeeks of them.
\* A window that always has the configured width.
WindowSize_Nominal(w) ==
    movingAvgWeeks

WindowSize(w) ==
    Min(Cardinality({x \in 1..w : "D" \in projRows[x + 1].cols}), movingAvgWeeks)

\* OFFSET(D, -1 * (size - 1), 0, size, 1): the rows of the window.
Window(w) == (w - WindowSize(w) + 1)..w

RECURSIVE SumVelocity(_, _)
SumVelocity(lo, hi) == IF lo > hi THEN 0 ELSE Velocity(lo) + SumVelocity(lo + 1, hi)

RECURSIVE SumSquares(_, _)
SumSquares(lo, hi) ==
    IF lo > hi THEN 0 ELSE Velocity(lo) * Velocity(lo) + SumSquares(lo + 1, hi)

\* The sign of a + e * sqrt(r), for e in {-1, 0, 1} and r >= 0.
SignSurd(a, e, r) ==
    IF e = 0 \/ r = 0 THEN Sgn(a)
    ELSE IF a = 0 \/ Sgn(a) = e THEN e
    ELSE IF Abs(a) > 46340 \/ a * a > r THEN Sgn(a)
    ELSE IF a * a < r THEN e
    ELSE 0

\* The velocity of a band, e = 1 for fast (J = E + F), 0 for mean (E), -1 for slow
\* (K = E - F), as (a + e * sqrt(r)) / scale.  E is AVERAGE of the window; F is
\* STDEV of the window, #DIV/0! when the window holds fewer than two numbers.
BandVelocity(w, e) ==
    LET n  == WindowSize(w)
        lo == w - n + 1
        s  == SumVelocity(lo, w)
        q  == n * SumSquares(lo, w) - s * s
    IN  IF e = 0 THEN [err |-> n = 0, a |-> s, r |-> 0, scale |-> n]
        ELSE [err |-> n < 2, a |-> s * (n - 1), r |-> q * n * (n - 1), scale |-> n * (n - 1)]

BandSign(w, e) == LET b == BandVelocity(w, e) IN SignSurd(b.a, e, b.r)

\* Columns G, H, I: =WORKDAY(A, CEILING((C / velocity) * 5, 1)).  The cell holds an
\* error value, or a date after (1), on (0) or before (-1) the checkpoint.
ProjectedDate(w, e) ==
    LET b    == BandVelocity(w, e)
        sv   == SignSurd(b.a, e, b.r)
        rem  == Remaining(w)
        near == SignSurd(5 * rem * b.scale + b.a, e, b.r)
    IN  IF b.err \/ sv = 0 THEN [error |-> TRUE, dir |-> 0]
        ELSE IF rem = 0 THEN [error |-> FALSE, dir |-> 0]
        ELSE IF Sgn(rem) = sv THEN [error |-> FALSE, dir |-> 1]
        ELSE IF near = Sgn(rem) \/ near = 0 THEN [error |-> FALSE, dir |-> -1]
        ELSE [error |-> FALSE, dir |-> 0]

(***************************************************************************)
(* config.Config and Config.Validate                                       *)
(***************************************************************************)
Str_Empty == <<>>
Str_X == <<"x">>
Str_NotURL == <<"n", "o", "t", "u", "r", "l">>
Str_JiraURL ==
    <<"h", "t", "t", "p", "s", ":", "/", "/", "e", "x", "a", "m", "p", "l", "e", ".",
      "a", "t", "l", "a", "s", "s", "i", "a", "n", ".", "n", "e", "t">>

\* The values of a plain string field: missing, or some text.
TextInputs == {Str_Empty, Str_X}

\* start_date: missing, a date, day-month-year, the 30th of February, one-digit month.
StartDateInputs ==
    {Str_Empty,
     <<"2", "0", "2", "4", "-", "0", "1", "-", "0", "1">>,
     <<"0", "1", "-", "0", "2", "-", "2", "0", "2", "4">>,
     <<"2", "0", "2", "4", "-", "0", "2", "-", "3", "0">>,
     <<"2", "0", "2", "4", "-", "1", "-", "0", "1">>}

\* jira_url: missing, a word, a host without a scheme, a URL.
JiraURLInputs == {Str_Empty, Str_NotURL, SubSeq(Str_JiraURL, 9, Len(Str_JiraURL)), Str_JiraURL}

\* A []string: nil, or its elements.
NilSlice == [nil |-> TRUE, elems |-> <<>>]

Slice(elems) == [nil |-> FALSE, elems |-> elems]

\* done_statuses: null, [], ["Done"], ["Done", "Closed"].
DoneStatusesInputs == {NilSlice, Slice(<<>>), Slice(<<Str_Done>>), Slice(DoneStatuses)}

\* The configurations json.Decode can leave in a Config.
Configs ==
    [OutputFile     : TextInputs,
     StartDate      : StartDateInputs,
     JQL            : TextInputs,
     MovingAvgWeeks : 0..MaxMovingAvgWeeks,
     Jira           : [JiraURL              : JiraURLInputs,
                       Username             : TextInputs,
                       APIToken             : TextInputs,
                       SizeField            : TextInputs,
                       PercentCompleteField : TextInputs,
                       DoneStatuses         : DoneStatusesInputs]]

\* The tag `required` on a string, on a uint and on a slice: the value is not the
\* zero value of its type; a slice is tested for nil.
RequiredString(s) == Len(s) # 0

RequiredUint(n) == n # 0

RequiredSlice(sl) == ~sl.nil

\* The tag `min=1` on a slice: its length is at least 1.
MinOne(sl) == Len(sl.elems) >= 1

\* The tag `datetime=2006-01-02`: time.Parse with that layout accepts the value.
IsDatetime(s) == ParseDate(s).ok

Letters ==
    {"a", "b", "c", "d", "e", "f", "g", "h", "i", "j", "k", "l", "m", "n", "o", "p", "q",
     "r", "s", "t", "u", "v", "w", "x", "y", "z"}

\* The tag `url`: the value parses as a URL that has a scheme (a letter, then
\* letters, digits, "+", "-" or ".", up to the first ":") and something after it.
IsURL(s) ==
    LET colons == {i \in 1..Len(s) : s[i] = ":"}
    IN  /\ colons # {}
        /\ LET c == CHOOSE i \in colons : \A j \in colons : i <= j
           IN  /\ c > 1
               /\ s[1] \in Letters
               /\ \A i \in 2..(c - 1) : s[i] \in Letters \/ IsDigit(s[i]) \/ s[i] \in {"+", "-", "."}
               /\ Len(s) > c

\* The error of one field: the first of its tags that fails, if any.
FieldError(field, checks) ==
    LET failing == {i \in 1..Len(checks) : ~checks[i].ok}
    IN  IF failing = {} THEN {}
        ELSE {[field |-> field,
               tag   |-> checks[CHOOSE i \in failing : \A j \in failing : i <= j].tag]}

Tag(tag, ok) == [tag |-> tag, ok |-> ok]

\* A validation of done_statuses that stops at `required`.
DoneStatusesError_NoMin(sl) ==
    FieldError("DoneStatuses", <<Tag("required", RequiredSlice(sl))>>)

\* DoneStatuses []string `validate:"required,min=1"`
DoneStatusesError(sl) ==
    FieldError("DoneStatuses", <<Tag("required", RequiredSlice(sl)), Tag("min", MinOne(sl))>>)

\* validate.Struct(c): the field errors of Config and of Config.Jira, by their tags.
StructErrors(c) ==
    FieldError("OutputFile", <<Tag("required", RequiredString(c.OutputFile))>>)
    \cup FieldError("StartDate", <<Tag("required", RequiredString(c.StartDate)),
                                   Tag("datetime", IsDatetime(c.StartDate))>>)
    \cup FieldError("JQL", <<Tag("required", RequiredString(c.JQL))>>)
    \cup FieldError("MovingAvgWeeks", <<Tag("required", RequiredUint(c.MovingAvgWeeks))>>)
    \cup FieldError("JiraURL", <<Tag("required", RequiredString(c.Jira.JiraURL)),
                                 Tag("url", IsURL(c.Jira.JiraURL))>>)
    \cup FieldError("Username", <<Tag("required", RequiredString(c.Jira.Username))>>)
    \cup FieldError("APIToken", <<Tag("required", RequiredString(c.Jira.APIToken))>>)
    \cup FieldError("SizeField", <<Tag("required", RequiredString(c.Jira.SizeField))>>)
    \cup FieldError("PercentCompleteField",
                    <<Tag("required", RequiredString(c.Jira.PercentCompleteField))>>)
    \cup DoneStatusesError(c.Jira.DoneStatuses)

\* Config.Validate: nil when validate.Struct finds nothing, else its errors.
Validate(c) == [called |-> TRUE, nil |-> StructErrors(c) = {}, errors |-> StructErrors(c)]

NotValidated == [called |-> FALSE, nil |-> TRUE, errors |-> {}]

NoConfig ==
    [OutputFile |-> Str_Empty, StartDate |-> Str_Empty, JQL |-> Str_Empty, MovingAvgWeeks |-> 0,
     Jira |-> [JiraURL |-> Str_Empty, Username |-> Str_Empty, APIToken |-> Str_Empty,
               SizeField |-> Str_Empty, PercentCompleteField |-> Str_Empty,
               DoneStatuses |-> NilSlice]]

ConfigIdle == config = NoConfig /\ validated = NotValidated

\* main, after LoadConfig.
ConfigInit == config \in Configs /\ validated = NotValidated

\* main calls config.Validate().
CallValidate ==
    /\ ~validated.called
    /\ validated' = Validate(config)
    /\ UNCHANGED config

ConfigNext == CallValidate

(***************************************************************************)
(* The specifications                                                      *)
(***************************************************************************)
Init == HistInit /\ QueryIdle /\ ReportIdle /\ ConfigIdle

Next == HistNext /\ UNCHANGED queryVars /\ UNCHANGED reportVars /\ UNCHANGED configVars

\* One issue's changelog, parsed and queried.
Spec == Init /\ [][Next]_vars

QInit == QueryInit /\ HistIdle /\ ReportIdle /\ ConfigIdle

QNext == QueryNext /\ UNCHANGED histVars /\ UNCHANGED reportVars /\ UNCHANGED configVars

\* A run of QueryJira.
SpecQuery == QInit /\ [][QNext]_vars

RInit == ReportInit /\ HistIdle /\ QueryIdle /\ ConfigIdle

RNext == ReportNext /\ UNCHANGED histVars /\ UNCHANGED queryVars /\ UNCHANGED configVars

\* A run of GenerateExcelReport.
SpecReport == RInit /\ [][RNext]_vars

CInit == ConfigInit /\ HistIdle /\ QueryIdle /\ ReportIdle

CNext == ConfigNext /\ UNCHANGED histVars /\ UNCHANGED queryVars /\ UNCHANGED reportVars

\* A configuration, loaded and validated.
SpecConfig == CInit /\ [][CNext]_vars

(***************************************************************************)
(* Properties of the reconstruction                                        *)
(***************************************************************************)
Called(d) == completion[d].st # "none"

Returned(d) == completion[d].st = "ok"

\* Some entry created before the start of the day after d changes the status to a
\* done value.
DoneScanned(hs, d) ==
    \E i \in 1..Len(hs) :
        /\ Before(hs[i].createdTime, AddDays(Midnight(d), 1))
        /\ \E j \in 1..Len(hs[i].Items) :
              /\ hs[i].Items[j].Field = "status"
              /\ IsDoneStatus(hs[i].Items[j].ToString)

\* C1 (as claimed): monotonicity. For every pair of dates d1 <= d2 on which
\* PercentCompleteOnDate returned a value, the value on d1 is <= the value on d2.
C1_Monotonic ==
    \A d1, d2 \in Dates :
        (d1 < d2 /\ Returned(d1) /\ Returned(d2))
            => FLeq(completion[d1].val, completion[d2].val)

\* C2 (as claimed): clamping. Whenever PercentCompleteOnDate returns without an
\* error, its result lies in [0, 1], whatever values the float parser accepted.
C2_Clamped ==
    \A d \in Dates :
        Returned(d) => FLeq(Num(0), completion[d].val) /\ FLeq(completion[d].val, Num(100))

\* C3 (as claimed): done override. If an entry created before the start of the day
\* after the query date changes the status to a done value, a call that returns
\* returns exactly 1.0.
C3_DoneOverride ==
    \A d \in Dates :
        (Returned(d) /\ DoneScanned(histories, d)) => completion[d].val = Num(100)

\* The changelog of the reconstruction example: the percent field set to "20" on
\* day 1, the status set to "Done" on day 3.
ExampleLog == <<H_Pct20, H_Done3>>

\* The same changelog with the percent field set to "0.20".
ExampleLogFraction == <<H_Pct020, H_Done3>>

\* C4 (as claimed): the reconstruction example. With the percent field set to "20"
\* on day 1 and the status to "Done" on day 3, the completion is 0.0 on day 0, 0.20
\* on day 1 and day 2, and 1.0 on day 3.
C4_ExampleAsClaimed ==
    raw = ExampleLog =>
        /\ Called(Day(0)) => completion[Day(0)] = [st |-> "ok", error |-> NoError, val |-> Num(0)]
        /\ Called(Day(1)) => completion[Day(1)] = [st |-> "ok", error |-> NoError, val |-> Num(20)]
        /\ Called(Day(2)) => completion[Day(2)] = [st |-> "ok", error |-> NoError, val |-> Num(20)]
        /\ Called(Day(3)) => completion[Day(3)] = [st |-> "ok", error |-> NoError, val |-> Num(100)]

\* C4 (amended): the value "20" is the number 20.0, which the clamp turns into 1.0:
\* the completion is 0.0 on day 0 and 1.0 on days 1, 2 and 3.  The values of the
\* example (0.0, 0.20, 0.20, 1.0) are those of the percent field set to "0.20".
C4_Example ==
    /\ raw = ExampleLog =>
          /\ Called(Day(0)) => completion[Day(0)] = [st |-> "ok", error |-> NoError, val |-> Num(0)]
          /\ \A n \in 1..3 :
                Called(Day(n)) => completion[Day(n)] = [st |-> "ok", error |-> NoError, val |-> Num(100)]
    /\ raw = ExampleLogFraction =>
          /\ Called(Day(0)) => completion[Day(0)] = [st |-> "ok", error |-> NoError, val |-> Num(0)]
          /\ Called(Day(1)) => completion[Day(1)] = [st |-> "ok", error |-> NoError, val |-> Num(20)]
          /\ Called(Day(2)) => completion[Day(2)] = [st |-> "ok", error |-> NoError, val |-> Num(20)]
          /\ Called(Day(3)) => completion[Day(3)] = [st |-> "ok", error |-> NoError, val |-> Num(100)]

\* The example's changelog, queried on each of the four days.
C4_Witness == raw = ExampleLog /\ \A n \in 0..3 : Returned(Day(n))

(***************************************************************************)
(* Properties of the query                                                 *)
(***************************************************************************)
\* The changelog that getIssueDetails unmarshalled holds a timestamp that does not
\* parse in the layout.
BadTimestampFetched ==
    \E i \in 1..Len(fetched.unmarshalled) : ~ParseTime(fetched.unmarshalled[i].Created).ok

\* C6: a timestamp parse failure is fatal, with no partial result. When a changelog
\* entry of a fetched issue has a timestamp that does not parse, parseHistoryTimes
\* leaves the history list as it was unmarshalled, getIssueDetails returns nil and
\* the error, and QueryJira returns a nil list and the error; a run over a result
\* set that holds such an issue, once it has returned, has returned that.
C6_TimestampFailureFatal ==
    /\ BadTimestampFetched =>
          /\ fetched.histories = fetched.unmarshalled
          /\ fetched.nil /\ fetched.err
          /\ qpc = "done"
          /\ qresult = NilErr
    /\ (qpc = "done" /\ badKey # 0) => qresult = NilErr

\* The malformed timestamp is met on the second page, after a page of issues was
\* fetched and appended.
C6_Witness ==
    /\ BadTimestampFetched
    /\ fetched.key = RESULTS_PER_PAGE + 1
    /\ Len(allIssues) = RESULTS_PER_PAGE
    /\ qpc = "done"

\* The keys 1 .. n in the server's order.
FirstKeys(n) == [i \in 1..n |-> i]

\* The search requests sent so far ask for startAt = 0, 100, 200, ...
RequestsInSteps ==
    \A i \in 1..Len(requests) : requests[i] = (i - 1) * RESULTS_PER_PAGE

\* The steps a run has left at most: the issues still to fetch, and three steps
\* (search, end of page, sleep) for each page still to ask for.
StepsLeft ==
    IF qpc = "done" THEN 0
    ELSE LET pages == (serverN \div RESULTS_PER_PAGE) + 1
             turn  == IF qpc = "search" THEN Len(requests) + 1 ELSE Len(requests)
             rank  == CASE qpc = "search" -> 3 [] qpc = "detail" -> 2 [] OTHER -> 1
         IN  (serverN - Len(allIssues)) + 3 * (pages - turn) + rank

\* QueryJira can take a step: one of its actions is enabled (for the fetch of an
\* issue's details, whose outcomes are never none, that is its guard).
CanStep ==
    \/ ENABLED SearchPage
    \/ qpc = "detail" /\ idx <= Len(page)
    \/ ENABLED PageDone
    \/ ENABLED Sleep

\* C10: pagination completeness. QueryJira asks for startAt = 0, 100, 200, ...; when
\* every request is served it returns all N issues exactly once, in the server's
\* order, having stopped after the first page of fewer than 100 issues (an empty one
\* when N is a multiple of 100). It terminates: until it has returned it can take a
\* step, and every step lowers the number of steps left, which is never negative.
C10_Pagination ==
    /\ [](/\ RequestsInSteps
          /\ (qresult.returned /\ ~qresult.err) =>
                /\ qresult.issues = FirstKeys(serverN)
                /\ Len(requests) = (serverN \div RESULTS_PER_PAGE) + 1
          /\ (qpc = "done" /\ qresult.returned) \/ CanStep
          /\ StepsLeft >= 0)
    /\ [][StepsLeft' < StepsLeft]_vars

\* Two full pages and the empty page that ends the pagination.
C10_Witness ==
    /\ serverN = 2 * RESULTS_PER_PAGE
    /\ qresult.returned /\ ~qresult.err
    /\ requests = <<0, RESULTS_PER_PAGE, 2 * RESULTS_PER_PAGE>>
    /\ page = <<>>

(***************************************************************************)
(* Properties of the report                                                *)
(***************************************************************************)
Produced == rpc = "done" /\ rresult = "ok"

\* A changelog entry with a percent-complete value that is not a number.
HasBadValue(h) ==
    \E i \in 1..Len(h.Items) :
        h.Items[i].Field = PercentCompleteField /\ ~ParseFloat(h.Items[i].ToString).ok

BadValueAnywhere(issue) ==
    \E k \in 1..Len(issue.Histories) : HasBadValue(issue.Histories[k])

\* Such an entry made before the start of the day after the newest checkpoint.
BadValueInReach(issue) ==
    /\ weeks # <<>>
    /\ \E k \in 1..Len(issue.Histories) :
          /\ HasBadValue(issue.Histories[k])
          /\ Before(issue.Histories[k].createdTime,
                    AddDays(Midnight(weeks[Len(weeks)]), 1))

\* C5 as stated: a percent-complete value that does not parse aborts the report run
\* with an error, wherever its entry lies relative to the checkpoints.
C5_BadValueFatalAnywhere ==
    (rpc = "done" /\ \E i \in 1..Len(issues) : BadValueAnywhere(issues[i]))
        => rresult = "err"

\* C5, amended: a percent-complete value that does not parse, in an entry made
\* before the start of the day after the newest checkpoint, aborts the report run
\* with an error: no row is written for its issue and the run does not succeed.
C5_BadValueFatalInReach ==
    /\ \A r \in 1..Len(workRows) : ~BadValueInReach(issues[r])
    /\ (rpc = "done" /\ \E i \in 1..Len(issues) : BadValueInReach(issues[i]))
          => rresult = "err"

\* A run of at most ten checkpoints that ended at the row of an issue with such a value.
C5_Witness ==
    /\ rpc = "done" /\ rresult = "err"
    /\ Len(weeks) \in 1..10
    /\ Len(workRows) < Len(issues)
    /\ BadValueInReach(issues[Len(workRows) + 1])

Bands == {[e |-> 1, col |-> "G"], [e |-> 0, col |-> "H"], [e |-> -1, col |-> "I"]}

\* C7: in every row i >= 3 and for each band, a velocity that is zero or negative
\* leaves the band's projected date absent: the cell holds no error value and no
\* date before the checkpoint.
C7_NoDateWithoutVelocity ==
    Produced =>
        \A w \in 3..(Len(projRows) - 1) : \A b \in Bands :
            (~BandVelocity(w, b.e).err /\ BandSign(w, b.e) <= 0) =>
                /\ b.col \notin projRows[w + 1].cols
                /\ ~(ProjectedDate(w, b.e).error \/ ProjectedDate(w, b.e).dir < 0)

\* C8: velocity is produced exactly in the rows i >= 1, the moving average exactly
\* in the rows i >= 2, the deviation, the fast and slow velocities and the three
\* projected dates exactly in the rows i >= 3.
C8_VelocityDomain ==
    \A w \in 0..(Len(projRows) - 1) :
        /\ ("D" \in projRows[w + 1].cols) <=> (w >= 1)
        /\ ("E" \in projRows[w + 1].cols) <=> (w >= 2)
        /\ \A c \in {"F", "G", "H", "I", "J", "K"} : (c \in projRows[w + 1].cols) <=> (w >= 3)

\* A report of at least five checkpoints, written and saved.
C8_Witness == Produced /\ Len(projRows) >= 5

\* The earned-value column the header loop wrote for the checkpoint of row w.
EVColumnOf(w) == 8 + 2 * (Len(weeks) - 1 - w)

RECURSIVE SumEarned(_, _)
SumEarned(w, i) ==
    IF i > Len(issues) THEN 0
    ELSE LET pc == PercentCompleteOnDate(issues[i].Histories, weeks[w + 1]).val
         IN  (IF pc.k = "num" THEN pc.v * issues[i].Size ELSE 0) + SumEarned(w, i + 1)

\* The sum over the issues of PercentCompleteOnDate x size is a number.
EarnedIsNumber(w) ==
    \A i \in 1..Len(issues) :
        PercentCompleteOnDate(issues[i].Histories, weeks[w + 1]).val.k = "num"

\* C9: in a report of any number of checkpoints, the label lookup of row i finds
\* the earned-value column written for checkpoint i, and Completed of row i is the
\* sum over the issues of PercentCompleteOnDate(issue, checkpoint i) x size.
C9_CompletedPerCheckpoint ==
    Produced =>
        \A w \in 0..(Len(projRows) - 1) :
            /\ HeaderMatch(RowLabel(w)) = EVColumnOf(w)
            /\ EarnedIsNumber(w)
            /\ Completed(w) = SumEarned(w, 1)

(***************************************************************************)
(* Properties of the traffic of a query                                    *)
(***************************************************************************)
\* C11: between any two consecutive requests of a QueryJira run, search or issue,
\* there is a sleep of one second.
C11_SleepBetweenRequests ==
    \A i \in 1..(Len(traffic) - 1) : traffic[i] = "sleep" \/ traffic[i + 1] = "sleep"

(***************************************************************************)
(* Properties of the validation                                            *)
(***************************************************************************)
\* A date written YYYY-MM-DD: four digits, two digits from 01 to 12, two digits
\* naming a day of that month.
IsYearMonthDay(s) ==
    /\ Len(s) = 10
    /\ \A i \in {1, 2, 3, 4, 6, 7, 9, 10} : IsDigit(s[i])
    /\ s[5] = "-" /\ s[8] = "-"
    /\ Atoi(SubSeq(s, 6, 7)) \in 1..12
    /\ Atoi(SubSeq(s, 9, 10)) \in 1..DaysIn(Atoi(SubSeq(s, 1, 4)), Atoi(SubSeq(s, 6, 7)))

\* A text of the shape scheme://host.
HasSchemeAndHost(s) ==
    \E i \in 2..(Len(s) - 3) : SubSeq(s, i, i + 2) = <<":", "/", "/">>

\* The fields that break a condition of the list, by their Go names.
Offending(c) ==
    {f \in {"OutputFile"} : c.OutputFile = Str_Empty}
    \cup {f \in {"JQL"} : c.JQL = Str_Empty}
    \cup {f \in {"Username"} : c.Jira.Username = Str_Empty}
    \cup {f \in {"APIToken"} : c.Jira.APIToken = Str_Empty}
    \cup {f \in {"SizeField"} : c.Jira.SizeField = Str_Empty}
    \cup {f \in {"PercentCompleteField"} : c.Jira.PercentCompleteField = Str_Empty}
    \cup {f \in {"StartDate"} : ~IsYearMonthDay(c.StartDate)}
    \cup {f \in {"MovingAvgWeeks"} : c.MovingAvgWeeks < 1}
    \cup {f \in {"JiraURL"} : ~HasSchemeAndHost(c.Jira.JiraURL)}
    \cup {f \in {"DoneStatuses"} :
             c.Jira.DoneStatuses.nil \/ Len(c.Jira.DoneStatuses.elems) = 0}

\* C12: Config.Validate returns no error exactly when every listed condition
\* holds, and its error names every field that breaks one, and no other field.
C12_Validate ==
    validated.called =>
        /\ validated.nil <=> (Offending(config) = {})
        /\ {e.field : e \in validated.errors} = Offending(config)

\* A configuration whose only fault is an empty done_statuses, validated.
C12_Witness ==
    /\ validated.called
    /\ ~config.Jira.DoneStatuses.nil
    /\ validated.errors = {[field |-> "DoneStatuses", tag |-> "min"]}

(***************************************************************************)
(* Properties of the errors of the reconstruction                          *)
(***************************************************************************)
\* The texts an error value carries into its message.
ErrorTexts(e) == {e[f] : f \in (DOMAIN e) \ {"type"}}

Str_Created == <<"c", "r", "e", "a", "t", "e", "d">>

Str_PercentCompleteField ==
    <<"P", "e", "r", "c", "e", "n", "t", "a", "g", "e", " ", "C", "o", "m", "p", "l", "e", "t", "e">>

\* C13: every error the reconstruction returns (a timestamp that does not parse,
\* a value that does not parse) identifies the issue key, the field name and the
\* offending raw value.
C13_ErrorContext ==
    /\ parsed = "err" =>
          /\ IssueKey \in ErrorTexts(parseErr)
          /\ Str_Created \in ErrorTexts(parseErr)
          /\ \E i \in 1..Len(raw) :
                ~ParseTime(raw[i].Created).ok /\ raw[i].Created \in ErrorTexts(parseErr)
    /\ \A d \in Dates : completion[d].st = "err" =>
          /\ IssueKey \in ErrorTexts(completion[d].error)
          /\ Str_PercentCompleteField \in ErrorTexts(completion[d].error)
          /\ \E i \in 1..Len(histories) : \E j \in 1..Len(histories[i].Items) :
                /\ ~ParseFloat(histories[i].Items[j].ToString).ok
                /\ histories[i].Items[j].ToString \in ErrorTexts(completion[d].error)

(***************************************************************************)
(* The reference definition of the completion                              *)
(***************************************************************************)
\* The entries with a timestamp strictly before the start of the day after d.
InScope(hs, d) ==
    {i \in 1..Len(hs) : Before(hs[i].createdTime, AddDays(Midnight(d), 1))}

\* The values of the percent field in those entries.
PercentValues(hs, d) ==
    UNION {{ParseFloat(hs[i].Items[j].ToString).val :
               j \in {k \in 1..Len(hs[i].Items) :
                         hs[i].Items[k].Field = PercentCompleteField}} :
           i \in InScope(hs, d)}

\* The maximum of a set of values; NaN, which is no number, is not counted.
Maximum(vals) ==
    LET nums == {v \in vals : ~IsNaN(v)}
    IN  IF nums = {} THEN Num(0) ELSE CHOOSE v \in nums : \A w \in nums : FLeq(w, v)

\* R: 1.0 with a change to a done status in scope, else the maximum of the values
\* in scope, else 0.0.
Reference(hs, d) ==
    IF DoneScanned(hs, d) THEN Num(100) ELSE Maximum(PercentValues(hs, d))

Clamp01(x) ==
    IF FLess(x, Num(0)) THEN Num(0) ELSE IF FLess(Num(100), x) THEN Num(100) ELSE x

\* C14: when all scanned values parse, PercentCompleteOnDate(date) is clamp01(R),
\* R being 1.0 if an entry before date + 1 day changes the status to a done value,
\* otherwise the maximum of the percent values of those entries, or 0.0.
C14_Reference ==
    \A d \in Dates :
        Returned(d) => completion[d].val = Clamp01(Reference(histories, d))

(***************************************************************************)
(* Properties of the order of the history list                             *)
(***************************************************************************)
\* A changelog entry as the server sent it.
Sent(h) == [Created |-> h.Created, Items |-> h.Items]

SentList(hs) == [i \in 1..Len(hs) |-> Sent(hs[i])]

\* The place of the first entry equal to x.
FirstAt(s, x) == CHOOSE i \in 1..Len(s) : s[i] = x /\ \A j \in 1..(i - 1) : s[j] # x

\* C15: after parseHistoryTimes succeeds the history list is a permutation of the
\* input list, ascending by parsed timestamp, and two entries with the same
\* timestamp are in the same relative order as in the input.
C15_StableOrder ==
    parsed = "ok" =>
        LET in  == SentList(raw)
            out == SentList(histories)
        IN  /\ IsPermutation(in, out)
            /\ \A i \in 1..(Len(out) - 1) :
                  ~Before(ParseTime(out[i + 1].Created).t, ParseTime(out[i].Created).t)
            /\ \A i, j \in 1..Len(in) :
                  (/\ in[i] # in[j]
                   /\ ParseTime(in[i].Created).t = ParseTime(in[j].Created).t
                   /\ FirstAt(in, in[i]) < FirstAt(in, in[j]))
                      => FirstAt(out, in[i]) < FirstAt(out, in[j])

(***************************************************************************)
(* Properties of the moving average                                        *)
(***************************************************************************)
\* The sum of the velocities of the rows of S.
RECURSIVE VelocitySum(_)
VelocitySum(S) ==
    IF S = {} THEN 0
    ELSE LET x == CHOOSE y \in S : TRUE IN Velocity(x) + VelocitySum(S \ {x})

\* min(i, W)
Samples(i) == IF i < movingAvgWeeks THEN i ELSE movingAvgWeeks

\* C16: in every row i >= 2 the moving average is the arithmetic mean of exactly the
\* velocities of the rows i - min(i, W) + 1 .. i: the window ends at row i, holds
\* min(i, W) samples and does not reach row 0, which has no velocity.
C16_MovingAverageWindow ==
    Produced =>
        \A i \in 2..(Len(projRows) - 1) :
            /\ "E" \in projRows[i + 1].cols
            /\ Window(i) = (i - Samples(i) + 1)..i
            /\ Cardinality(Window(i)) = Samples(i)
            /\ \A x \in Window(i) : x >= 1 /\ "D" \in projRows[x + 1].cols
            /\ "D" \notin projRows[1].cols
            /\ BandVelocity(i, 0) =
                   [err |-> FALSE, a |-> VelocitySum((i - Samples(i) + 1)..i), r |-> 0,
                    scale |-> Samples(i)]

\* A report of four checkpoints with a window of two weeks and work earned in the
\* last week: row 2 averages rows 1..2, row 3 averages rows 2..3.
C16_Witness ==
    /\ Produced
    /\ movingAvgWeeks = 2
    /\ Len(projRows) = 4
    /\ Velocity(3) # 0

(***************************************************************************)
(* Properties of the standard deviation                                    *)
(***************************************************************************)
\* C17: in every row i >= 3, for every window width W >= 1, the standard deviation
\* is the sample standard deviation of the window of min(i, W) samples the moving
\* average uses, and that window holds at least two samples, so that the
\* denominator n - 1 is not zero.
C17_StdDevDefined ==
    Produced =>
        \A i \in 3..(Len(projRows) - 1) :
            /\ "F" \in projRows[i + 1].cols
            /\ WindowSize(i) = Samples(i)
            /\ WindowSize(i) >= 2
            /\ ~BandVelocity(i, 1).err

(***************************************************************************)
(* Properties of the checkpoints                                           *)
(***************************************************************************)
\* C18: the checkpoints are exactly s, s + 7d, s + 14d, ..., every one on or before
\* now and none after it, strictly ascending, none when s is after now; the
\* Projections sheet has one row per checkpoint in that order and the Work sheet
\* lists the same checkpoints newest first.
C18_Checkpoints ==
    rpc # "begin" =>
        LET s == ParseDate(startDate).day
            n == Len(weeks)
        IN  /\ \A k \in 1..n :
                  /\ weeks[k] = s + 7 * (k - 1)
                  /\ ~Before(currentDate, Midnight(weeks[k]))
            /\ Before(currentDate, Midnight(s + 7 * n))
            /\ Before(currentDate, Midnight(s)) => n = 0
            /\ \A k \in 1..(n - 1) : weeks[k] < weeks[k + 1]
            /\ Len(projRows) <= n
            /\ Produced => Len(projRows) = n
            /\ \A k \in 1..Len(projRows) : projRows[k].date = FormatDate(weeks[k])
            /\ Len(headers) = Len(FixedHeaders) + 2 * n
            /\ \A j \in 1..n :
                  /\ headers[Len(FixedHeaders) + 2 * j - 1] = PercentLabel(weeks[n + 1 - j])
                  /\ headers[Len(FixedHeaders) + 2 * j] = EVLabel(weeks[n + 1 - j])

\* A report made at the midnight that is the second checkpoint: both checkpoints
\* are listed.
C18_Witness ==
    /\ Produced
    /\ currentDate = Midnight(ParseDate(startDate).day + 7)
    /\ Len(projRows) = 2

(***************************************************************************)
(* Properties of the replay under reordering                               *)
(***************************************************************************)
\* The orderings of a history list: every one for a short list; for a long list
\* the ones that differ in the order of entries with identical timestamps.
Orderings(hs) ==
    IF Len(hs) <= MaxHistories
    THEN {[i \in 1..Len(hs) |-> hs[f[i]]] :
             f \in {g \in [1..Len(hs) -> 1..Len(hs)] :
                       \A i, j \in 1..Len(hs) : i # j => g[i] # g[j]}}
    ELSE SortedArrangements(hs)

\* The value, or the fact that the call failed.
ValueOrFailure(r) == IF r.err THEN [st |-> "err", val |-> Num(0)] ELSE [st |-> "ok", val |-> r.val]

\* C19: for a fixed multiset of events and a fixed query date the outcome of
\* PercentCompleteOnDate (the value, or the fact that it is an error) is the same
\* for every ordering of the events in the history list, the orderings of events
\* with identical timestamps included.
C19_OrderIndependent ==
    \A d \in Dates :
        Called(d) =>
            \A p \in Orderings(histories) :
                ValueOrFailure(PercentCompleteOnDate(p, d))
                    = [st |-> completion[d].st, val |-> completion[d].val]

(***************************************************************************)
(* Properties of the columns of the Work sheet                             *)
(***************************************************************************)
\* The report ended with an error in the row of the issue at Len(workRows) + 1.
FailedInIssueRow == rpc = "done" /\ rresult = "err" /\ Len(workRows) < Len(issues)

\* C20: in every issue row, for any number n of checkpoints, the k-th newest week
\* (k = 0 .. n-1) has its percent value and its earned-value formula in the columns
\* 7 + 2k and 8 + 2k, the columns of no other week, and the report does not fail
\* because of the number of weeks: a failure in an issue row is a failure of
\* PercentCompleteOnDate.
C20_ColumnAddressing ==
    /\ \A r \in 1..Len(workRows) :
          /\ \A k \in 0..(Len(reversedWeeks) - 1) :
                /\ (8 + 2 * k) \in DOMAIN workRows[r]
                /\ workRows[r][8 + 2 * k] = EarnedFormula(7 + 2 * k)
                /\ (7 + 2 * k) \in DOMAIN workRows[r] => workRows[r][7 + 2 * k].t = "value"
          /\ DOMAIN workRows[r] \subseteq 6..(6 + 2 * Len(reversedWeeks))
    /\ FailedInIssueRow =>
          \E k \in 1..Len(reversedWeeks) :
              PercentCompleteOnDate(issues[Len(workRows) + 1].Histories, reversedWeeks[k]).err

(***************************************************************************)
(* Properties of the completed value over the rows                         *)
(***************************************************************************)
\* The total size: the sum of the sizes of the issues, in hundredths.
RECURSIVE TotalSize(_)
TotalSize(i) == IF i > Len(issues) THEN 0 ELSE 100 * issues[i].Size + TotalSize(i + 1)

\* C21: when every issue size is non-negative, the completed value is
\* non-decreasing in the row index and never exceeds the total size, so every
\* velocity (rows 1 and up) is >= 0 and every remaining value is >= 0.
C21_NonNegativeVelocity ==
    (Produced /\ \A i \in 1..Len(issues) : issues[i].Size >= 0) =>
        \A w \in 0..(Len(projRows) - 1) :
            /\ Completed(w) <= TotalSize(1)
            /\ Remaining(w) >= 0
            /\ w >= 1 => Completed(w - 1) <= Completed(w) /\ Velocity(w) >= 0

====
